---- MODULE Spec2Model ----
(***************************************************************************)
(* A model of the sign-language translator's core: the prediction          *)
(* stabilizer of src/translator.py (SignTranslator) and the landmark       *)
(* normalizer of src/sign_detector.py (SignDetector.preprocess_landmarks). *)
(*                                                                         *)
(* Confidences are integers in hundredths (70 is 0.70); a quotient is an   *)
(* exact fraction <<numerator, denominator>> in lowest terms.              *)
(***************************************************************************)
EXTENDS Integers, Sequences, FiniteSets, TLC

VARIABLES
    smoothing_window,     \* config.SMOOTHING_WINDOW as read by __init__
    gesture_threshold,    \* config.GESTURE_THRESHOLD as read by predict
    constructed,          \* TRUE when SignTranslator.__init__ returned normally
    model_loaded,         \* self.model is not None
    prediction_history,   \* self.prediction_history, oldest first
    current_prediction,   \* self.current_prediction
    current_confidence,   \* self.current_confidence
    lastOp,               \* the call made last: "init", "predict" or "reset"
    lastLandmarks,        \* the landmarks argument of that call, if it was predict
    lastOutcome,          \* what the classifier did in that call, if it ran
    lastRet,              \* the value that call returned
    preHistory,           \* prediction_history as it was when that call began
    landmarks,            \* the raw pose the detector returned for the frame
    processed,            \* whether preprocess_landmarks ran, and what it returned
    motion,               \* how a second pose is derived from landmarks: a shift or a scaling
    moved,                \* whether preprocess_landmarks ran on that second pose, and its result
    frame_shape,          \* (rows, columns) of the frame given to get_hand_region
    region,               \* whether get_hand_region ran, and what it computed
    candidate,            \* the array handed to validate_landmarks
    valid_result,         \* whether validate_landmarks ran, and what it returned
    main_pc,              \* where main's loop stands: "frame" or "key"
    drawn,                \* the (prediction, confidence) main handed to draw_results
    classifier_input,     \* the array the classifier was last invoked on
    table,                \* the DynamoDB table: short_code -> item
    preTable,             \* the table as it was when the last Lambda call began
    lastCall,             \* the last Lambda call: its function, event and response
    issued,               \* the (short_code, long_url) pairs of shortenr's 200 responses
    inv,                  \* the Lambda invocations in progress: where each stands and its locals
    clicks_done           \* per short_code, the update_item calls that returned since its item was put

translatorVars == <<smoothing_window, gesture_threshold, constructed, model_loaded,
                    prediction_history, current_prediction, current_confidence,
                    lastOp, lastLandmarks, lastOutcome, lastRet, preHistory>>
detectorVars == <<landmarks, processed, motion, moved>>
checkVars == <<frame_shape, region, candidate, valid_result>>
mainVars == <<main_pc, drawn, classifier_input>>
urlVars == <<table, preTable, lastCall, issued, inv, clicks_done>>
vars == <<translatorVars, detectorVars, checkVars, mainVars, urlVars>>

----------------------------------------------------------------------------
(* Bounds of the model *)

\* how many of the 26 classes the classifier reports in the model
NumLabels == 2
\* coordinates are integers in units of 1/CoordUnit pixel
CoordUnit == 1
\* pixel coordinates x, y range over 0..MaxCoord, in those units
MaxCoord == 2
\* depth z ranges over 0..MaxDepth, in the same units
MaxDepth == 1

----------------------------------------------------------------------------
(* Program constants *)

SMOOTHING_WINDOW == 5
GESTURE_THRESHOLD == 70
NumKeypoints == 21
CAMERA_WIDTH == 640
CAMERA_HEIGHT == 480
ASL_CLASSES == <<"A", "B", "C", "D", "E", "F", "G", "H", "I", "J",
                 "K", "L", "M", "N", "O", "P", "Q", "R", "S", "T",
                 "U", "V", "W", "X", "Y", "Z">>

\* Python's None, as a label
None == "None"

\* what a call that returns nothing leaves in lastRet
NoReturn == <<"void", <<0, 1>>>>

----------------------------------------------------------------------------
(* Exact fractions *)

RECURSIVE GCD(_, _)
GCD(a, b) == IF b = 0 THEN a ELSE GCD(b, a % b)

Abs(n) == IF n < 0 THEN -n ELSE n

\* the float n / d for d >= 0: in lowest terms for d > 0; a division by zero
\* of floats raises nothing and gives an infinity <<1, 0>>, <<-1, 0>> or, for
\* 0 / 0, the NaN <<0, 0>>
Rat(n, d) ==
    IF d = 0
    THEN <<IF n > 0 THEN 1 ELSE IF n < 0 THEN -1 ELSE 0, 0>>
    ELSE LET g == GCD(Abs(n), d) IN <<n \div g, d \div g>>

\* the float 0.0
Zero == Rat(0, 1)

----------------------------------------------------------------------------
(* collections.deque(maxlen=n) *)

\* deque(maxlen=n) raises ValueError for a negative n
DequeConstructs(maxlen) == maxlen >= 0

DequeAppendNoEvict(dq, x, maxlen) == Append(dq, x)

\* deque.append: the new item goes to the right end, and an item is dropped
\* from the left end when the length exceeds maxlen
DequeAppend(dq, x, maxlen) ==
    LET a == Append(dq, x)
    IN  IF Len(a) > maxlen THEN Tail(a) ELSE a

----------------------------------------------------------------------------
(* SignTranslator._smooth_predictions *)

\* prediction_counts is a dict: its keys keep their insertion order, so it is
\* a sequence of <<key, count>> pairs here
DictHas(d, k) == \E i \in DOMAIN d : d[i][1] = k

DictIncrNewestFirst(d, k) ==
    IF DictHas(d, k)
    THEN [i \in DOMAIN d |-> IF d[i][1] = k THEN <<k, d[i][2] + 1>> ELSE d[i]]
    ELSE <<<<k, 1>>>> \o d

DictIncr(d, k) ==
    IF DictHas(d, k)
    THEN [i \in DOMAIN d |-> IF d[i][1] = k THEN <<k, d[i][2] + 1>> ELSE d[i]]
    ELSE Append(d, <<k, 1>>)

\* the loop of lines 104-109: the state after scanning the first n entries,
\* as a record of prediction_counts and total_confidence
RECURSIVE Tally(_, _)
Tally(h, n) ==
    IF n = 0
    THEN [counts |-> <<>>, total |-> 0]
    ELSE LET t == Tally(h, n - 1)
         IN  [counts |-> DictIncr(t.counts, h[n][1]),
              total  |-> t.total + h[n][2]]

\* max(d, key=d.get) scans the keys in iteration order, and a later key
\* replaces the best so far only when its value is strictly greater
RECURSIVE MaxKeyUpTo(_, _)
MaxKeyUpTo(d, n) ==
    IF n = 1
    THEN d[1]
    ELSE LET best == MaxKeyUpTo(d, n - 1)
         IN  IF d[n][2] > best[2] THEN d[n] ELSE best

RECURSIVE MaxKeyLastUpTo(_, _)
MaxKeyLastUpTo(d, n) ==
    IF n = 1
    THEN d[1]
    ELSE LET best == MaxKeyLastUpTo(d, n - 1)
         IN  IF d[n][2] >= best[2] THEN d[n] ELSE best

MaxKeyLast(d) == MaxKeyLastUpTo(d, Len(d))[1]

MaxKeyFirstKey(d) == d[1][1]

MaxKey(d) == MaxKeyUpTo(d, Len(d))[1]

AvgOverCapacity(total, n) == Rat(total, SMOOTHING_WINDOW)

\* total_confidence / len(self.prediction_history)
AvgConfidence(total, n) == Rat(total, n)

smooth_predictions(h) ==
    IF h = <<>>
    THEN <<"", Zero>>
    ELSE LET t == Tally(h, Len(h))
         IN  <<MaxKey(t.counts), AvgConfidence(t.total, Len(h))>>

----------------------------------------------------------------------------
(* The classifier and the inputs of predict *)

\* confidences the classifier reports for its top class: below, at and above
\* GESTURE_THRESHOLD
ConfLevels == {GESTURE_THRESHOLD - 20, GESTURE_THRESHOLD,
               GESTURE_THRESHOLD + 10, GESTURE_THRESHOLD + 20}

\* what predict is handed: None ("absent"), an array of 63 finite values
\* ("valid"), an array of another length ("wrong_length"), or an array of 63
\* values that holds a NaN ("not_finite")
LandmarkKinds == {"absent", "valid", "wrong_length", "not_finite"}

NoOutcome == [kind |-> "none", idx |-> 0, conf |-> 0]
Raises    == [kind |-> "raise", idx |-> 0, conf |-> 0]
NaNProbs  == [kind |-> "nan", idx |-> 0, conf |-> 0]
Probs(i, c) == [kind |-> "probs", idx |-> i, conf |-> c]

\* lines 61-68, model.predict followed by argmax: the model raises on an
\* input of the wrong shape and may raise on any input, yields NaN
\* probabilities for a vector that holds a NaN, and otherwise yields a top
\* class index and its probability
ClassifierOutcomes(kind) ==
    CASE kind = "absent"       -> {NoOutcome}
      [] kind = "wrong_length" -> {Raises}
      [] kind = "not_finite"   -> {Raises, NaNProbs}
      [] kind = "valid"        ->
            {Raises} \cup {Probs(i, c) : i \in 0..(NumLabels - 1), c \in ConfLevels}

GateAcceptsEqual(o, threshold) == o.kind = "probs" /\ o.conf >= threshold

GateAcceptsAll(o, threshold) == o.kind = "probs"

\* line 71: confidence > config.GESTURE_THRESHOLD, false for a NaN
Gate(o, threshold) == o.kind = "probs" /\ o.conf > threshold

----------------------------------------------------------------------------
(* SignTranslator *)

\* __init__ with the tunables w and t in the config module
Construct(w, t) ==
    /\ smoothing_window = w
    /\ gesture_threshold = t
    /\ constructed = DequeConstructs(w)
    /\ model_loaded \in BOOLEAN
    /\ prediction_history = <<>>
    /\ current_prediction = ""
    /\ current_confidence = Zero
    /\ lastOp = "init"
    /\ lastLandmarks = "none"
    /\ lastOutcome = NoOutcome
    /\ lastRet = NoReturn
    /\ preHistory = <<>>

\* line 57: return None, 0.0
ReturnAbsent == <<None, Zero>>

\* line 88: return None, 0.0
ReturnRejected == <<None, Zero>>

\* predict returning at line 57 (ret is ReturnAbsent) or, the exception
\* caught or the gate not passed, at line 88 (ret is ReturnRejected)
PredictReturnsNone(ret) ==
    /\ lastRet' = ret
    /\ UNCHANGED <<prediction_history, current_prediction, current_confidence>>

PredictAcceptsCachesRaw(lm, o) ==
    LET h == DequeAppend(prediction_history,
                         <<ASL_CLASSES[o.idx + 1], o.conf>>, smoothing_window)
        s == smooth_predictions(h)
    IN  /\ prediction_history' = h
        /\ current_prediction' = ASL_CLASSES[o.idx + 1]
        /\ current_confidence' = Rat(o.conf, 1)
        /\ lastRet' = s

\* predict: lines 72-83
PredictAccepts(lm, o) ==
    LET h == DequeAppend(prediction_history,
                         <<ASL_CLASSES[o.idx + 1], o.conf>>, smoothing_window)
        s == smooth_predictions(h)
    IN  /\ prediction_history' = h
        /\ current_prediction' = s[1]
        /\ current_confidence' = s[2]
        /\ lastRet' = s

predict(lm, o) ==
    /\ constructed
    /\ lastOp' = "predict"
    /\ lastLandmarks' = lm
    /\ preHistory' = prediction_history
    /\ IF ~model_loaded \/ lm = "absent"
       THEN /\ lastOutcome' = NoOutcome
            /\ PredictReturnsNone(ReturnAbsent)
       ELSE /\ lastOutcome' = o
            /\ IF Gate(o, gesture_threshold)
               THEN PredictAccepts(lm, o)
               ELSE PredictReturnsNone(ReturnRejected)
    /\ UNCHANGED <<smoothing_window, gesture_threshold, constructed, model_loaded>>

\* a caller handing predict any landmarks
Predict ==
    /\ \E lm \in LandmarkKinds : \E o \in ClassifierOutcomes(lm) : predict(lm, o)
    /\ UNCHANGED <<detectorVars, checkVars, mainVars, urlVars>>

ResetKeepsConfidence ==
    /\ constructed
    /\ lastOp' = "reset"
    /\ prediction_history' = <<>>
    /\ current_prediction' = ""
    /\ UNCHANGED current_confidence
    /\ lastLandmarks' = "none"
    /\ lastOutcome' = NoOutcome
    /\ lastRet' = NoReturn
    /\ preHistory' = prediction_history
    /\ UNCHANGED <<smoothing_window, gesture_threshold, constructed, model_loaded>>

reset ==
    /\ constructed
    /\ lastOp' = "reset"
    /\ prediction_history' = <<>>
    /\ current_prediction' = ""
    /\ current_confidence' = Zero
    /\ lastLandmarks' = "none"
    /\ lastOutcome' = NoOutcome
    /\ lastRet' = NoReturn
    /\ preHistory' = prediction_history
    /\ UNCHANGED <<smoothing_window, gesture_threshold, constructed, model_loaded>>

\* a caller's reset()
Reset ==
    /\ reset
    /\ UNCHANGED <<detectorVars, checkVars, mainVars, urlVars>>

get_current_prediction == <<current_prediction, current_confidence>>

----------------------------------------------------------------------------
(* SignDetector.preprocess_landmarks *)

\* Python's None, as a landmarks array
NoPose == <<>>

Min2(a, b) == IF a <= b THEN a ELSE b
Max2(a, b) == IF a >= b THEN a ELSE b

\* np.min and np.max of the values of f over 0..(n - 1)
RECURSIVE NpMin(_, _)
NpMin(f, n) == IF n = 1 THEN f[0] ELSE Min2(NpMin(f, n - 1), f[n - 1])

RECURSIVE NpMax(_, _)
NpMax(f, n) == IF n = 1 THEN f[0] ELSE Max2(NpMax(f, n - 1), f[n - 1])

\* landmarks.reshape(21, 3)[k][c], for a keypoint k in 0..20 and an axis c in 0..2
Reshaped(lm, k, c) == lm[3 * k + c + 1]

KeepAbsolute(v, wrist) == v

\* lines 106-107: landmarks_reshaped - wrist, for one component
RelativeToWrist(v, wrist) == v - wrist

DepthClamped(v) == Rat(Max2(-CoordUnit, Min2(v, CoordUnit)), CoordUnit)

\* the z column is not assigned after line 107: the translated value as it is
Depth(v) == Rat(v, CoordUnit)

AxisRangeUnit(lo, hi) == CoordUnit

AxisRangeOfMax(lo, hi) == Max2(hi, CoordUnit)

AxisRangeNoFloor(lo, hi) == hi - lo

\* lines 117-118: max(x_max - x_min, 1), one pixel being CoordUnit units
AxisRange(lo, hi) == Max2(hi - lo, CoordUnit)

RescaleNoShift(v, lo, range) == Rat(2 * (v - lo), range)

\* lines 121-122: (v - lo) / range * 2 - 1
Rescale(v, lo, range) == Rat(2 * (v - lo) - range, range)

\* lines 103-125
preprocess_landmarks(lm) ==
    IF lm = NoPose
    THEN NoPose
    ELSE LET K == 0..(NumKeypoints - 1)
             \* lines 106-107: landmarks_reshaped - wrist
             normalized == [k \in K |-> [c \in 0..2 |->
                               RelativeToWrist(Reshaped(lm, k, c), Reshaped(lm, 0, c))]]
             x_coords == [k \in K |-> normalized[k][0]]
             y_coords == [k \in K |-> normalized[k][1]]
             x_min == NpMin(x_coords, NumKeypoints)
             x_max == NpMax(x_coords, NumKeypoints)
             y_min == NpMin(y_coords, NumKeypoints)
             y_max == NpMax(y_coords, NumKeypoints)
             x_range == AxisRange(x_min, x_max)
             y_range == AxisRange(y_min, y_max)
             out(k, c) ==
                 CASE c = 0 -> Rescale(normalized[k][0], x_min, x_range)
                   [] c = 1 -> Rescale(normalized[k][1], y_min, y_range)
                   [] c = 2 -> Depth(normalized[k][2])
         IN  \* line 125: flatten
             [i \in 1..(3 * NumKeypoints) |-> out((i - 1) \div 3, (i - 1) % 3)]

\* a keypoint as the detector reports it: x, y in pixels and a depth z
Points == {<<x, y, z>> : x \in 0..MaxCoord, y \in 0..MaxCoord, z \in 0..MaxDepth}

\* the flat array of a hand whose wrist is at w, whose odd keypoints are at a
\* and whose other keypoints are at b
PoseOf(w, a, b) ==
    [i \in 1..(3 * NumKeypoints) |->
        LET k == (i - 1) \div 3
            c == ((i - 1) % 3) + 1
        IN  IF k = 0 THEN w[c] ELSE IF k % 2 = 1 THEN a[c] ELSE b[c]]

Poses == {NoPose} \cup {PoseOf(w, a, b) : w \in Points, a \in Points, b \in Points}

NotRun == [done |-> FALSE, value |-> NoPose]

\* a second pose made from a first: every keypoint shifted by the same
\* offset, or every x and y multiplied by the same factor
Shift(dx, dy, dz) == [kind |-> "shift", by |-> <<dx, dy, dz>>]
Scale(k) == [kind |-> "scale", by |-> <<k, k, 1>>]
NoMotion == Shift(0, 0, 0)

Apply(m, lm) ==
    [i \in DOMAIN lm |->
        LET c == ((i - 1) % 3) + 1
        IN  IF m.kind = "shift" THEN lm[i] + m.by[c] ELSE lm[i] * m.by[c]]

Motions == {Shift(MaxCoord + 1, -1, 2), Shift(-3, 0, -1), Scale(3)}

\* poses with depths on both sides of the image plane, whose even keypoints
\* are at a corner
MovePoints ==
    {<<x, y, z>> : x \in 0..MaxCoord, y \in 0..MaxCoord, z \in (-MaxDepth)..MaxDepth}
MovePoses ==
    {PoseOf(w, a, <<MaxCoord, 0, 0>>) : w \in MovePoints, a \in MovePoints}

\* preprocess_landmarks called on a pose and on the pose derived from it
PreprocessBoth ==
    /\ ~processed.done
    /\ processed' = [done |-> TRUE, value |-> preprocess_landmarks(landmarks)]
    /\ LET second == Apply(motion, landmarks)
       IN  moved' = [done |-> TRUE, value |-> preprocess_landmarks(second)]
    /\ UNCHANGED <<landmarks, motion>>
    /\ UNCHANGED <<translatorVars, checkVars, mainVars, urlVars>>

Preprocess ==
    /\ ~processed.done
    /\ processed' = [done |-> TRUE, value |-> preprocess_landmarks(landmarks)]
    /\ UNCHANGED <<landmarks, motion, moved>>
    /\ UNCHANGED <<translatorVars, checkVars, mainVars, urlVars>>

----------------------------------------------------------------------------
(* SignDetector.get_hand_region *)

\* line 152
padding == 20

\* astype(int) of a float: truncation toward zero
AsInt(r) == IF r[1] >= 0 THEN r[1] \div r[2] ELSE -((-r[1]) \div r[2])

\* the number of indices a slice lo:hi selects from an axis of length n: a
\* negative index counts from the end, and both ends are clamped to the axis
SliceStart(i, n) == IF i < 0 THEN Max2(i + n, 0) ELSE Min2(i, n)
SliceLen(lo, hi, n) == Max2(SliceStart(hi, n) - SliceStart(lo, n), 0)

\* what get_hand_region computed: the rectangle of line 159 as
\* <<x_min, x_max, y_min, y_max>>, the (rows, columns) of the crop, and
\* whether a region was returned
NoRegion == [done |-> FALSE, present |-> FALSE, rect |-> <<0, 0, 0, 0>>,
             size |-> <<0, 0>>]

get_hand_region(shape, lm) ==
    IF lm = NoPose
    THEN [done |-> TRUE, present |-> FALSE, rect |-> <<0, 0, 0, 0>>, size |-> <<0, 0>>]
    ELSE LET x_coords == [k \in 0..(NumKeypoints - 1) |-> AsInt(Reshaped(lm, k, 0))]
             y_coords == [k \in 0..(NumKeypoints - 1) |-> AsInt(Reshaped(lm, k, 1))]
             x_min == Max2(0, NpMin(x_coords, NumKeypoints) - padding)
             y_min == Max2(0, NpMin(y_coords, NumKeypoints) - padding)
             x_max == Min2(shape[2], NpMax(x_coords, NumKeypoints) + padding)
             y_max == Min2(shape[1], NpMax(y_coords, NumKeypoints) + padding)
             rows == SliceLen(y_min, y_max, shape[1])
             cols == SliceLen(x_min, x_max, shape[2])
         IN  [done |-> TRUE, present |-> rows * cols > 0,
              rect |-> <<x_min, x_max, y_min, y_max>>, size |-> <<rows, cols>>]

\* pixel positions left of, on and right of the frame's edges, and above,
\* inside and below it
RegionXs == {Rat(-61, 2), Rat(-padding, 1), Zero, Rat(CAMERA_WIDTH, 1),
             Rat(CAMERA_WIDTH + padding + 10, 1)}
RegionYs == {Rat(-30, 1), Rat(CAMERA_HEIGHT \div 2, 1), Rat(CAMERA_HEIGHT + padding, 1)}
RegionPoints == {<<x, y, Zero>> : x \in RegionXs, y \in RegionYs}
RegionPoses ==
    {NoPose} \cup
    {PoseOf(w, a, b) : w \in RegionPoints, a \in RegionPoints, b \in RegionPoints}

\* the camera's frame and a frame of the model's input size
FrameShapes == {<<CAMERA_HEIGHT, CAMERA_WIDTH>>, <<64, 64>>}

GetHandRegion ==
    /\ ~region.done
    /\ region' = get_hand_region(frame_shape, landmarks)
    /\ UNCHANGED <<frame_shape, candidate, valid_result>>
    /\ UNCHANGED <<translatorVars, detectorVars, mainVars, urlVars>>

----------------------------------------------------------------------------
(* utils: validate_landmarks *)

\* the literal bound of lines 144 and 146
SanityBound == 1000
\* the literal length of line 131
ExpectedLength == 63

\* an element of a float array: a finite number, a NaN or an infinity
Num(n) == <<"num", n>>
NaN == <<"nan", 0>>
PosInf == <<"inf", 1>>
NegInf == <<"inf", -1>>

\* the argument of validate_landmarks: None or an array
AbsentArray == [present |-> FALSE, value |-> <<>>]
GivenArray(v) == [present |-> TRUE, value |-> v]

\* np.isnan / np.isinf of one element
IsNaN(e) == e[1] = "nan"
IsInf(e) == e[1] = "inf"

\* lines 144 and 146: coords < -1000 or coords > 1000, for a finite element
OutOfBound(e) == e[2] < -SanityBound \/ e[2] > SanityBound

\* column c (1 is x, 2 is y) of landmarks.reshape(21, 3)
Column(v, c) == {v[3 * k + c] : k \in 0..(NumKeypoints - 1)}

AnyColumnOutOfBound(v) == \E c \in 1..3 : \E e \in Column(v, c) : OutOfBound(e)

\* lines 139-147: the x column, then the y column
XYOutOfBound(v) ==
    \/ \E e \in Column(v, 1) : OutOfBound(e)
    \/ \E e \in Column(v, 2) : OutOfBound(e)

\* validate_landmarks: the early returns of lines 127-149 in order
validate_landmarks(a) ==
    IF ~a.present THEN FALSE
    ELSE IF Len(a.value) # ExpectedLength THEN FALSE
    ELSE IF \E i \in DOMAIN a.value : IsNaN(a.value[i]) \/ IsInf(a.value[i]) THEN FALSE
    ELSE IF XYOutOfBound(a.value) THEN FALSE
    ELSE TRUE

\* the arrays validate_landmarks is tried on: all zeros of a length around
\* 63, with up to two slots holding a value at or past the bound, a NaN or
\* an infinity; the slots are x, y and z of the first and the last keypoint
ProbeValues == {Num(-SanityBound - 1), Num(-SanityBound), Num(SanityBound),
                Num(SanityBound + 1), NaN, PosInf, NegInf}
ProbeSlots == {1, 2, 3, ExpectedLength - 2, ExpectedLength - 1, ExpectedLength}
CandidateLengths == {0, ExpectedLength - 1, ExpectedLength, ExpectedLength + 1}

Probed(len, s1, v1, s2, v2) ==
    [i \in 1..len |-> IF i = s1 THEN v1 ELSE IF i = s2 THEN v2 ELSE Num(0)]

Candidates ==
    {AbsentArray} \cup
    {GivenArray(Probed(len, s1, v1, s2, v2)) :
        len \in CandidateLengths, s1 \in {1, 2, 3}, v1 \in ProbeValues \cup {Num(0)},
        s2 \in ProbeSlots \ {1, 2, 3}, v2 \in ProbeValues \cup {Num(0)}}

NotValidated == [done |-> FALSE, value |-> FALSE]

Validate ==
    /\ ~valid_result.done
    /\ valid_result' = [done |-> TRUE, value |-> validate_landmarks(candidate)]
    /\ UNCHANGED <<candidate, frame_shape, region>>
    /\ UNCHANGED <<translatorVars, detectorVars, mainVars, urlVars>>

----------------------------------------------------------------------------
(* main: the per-frame loop *)

\* np.array(landmarks, dtype=np.float32) at line 87 of sign_detector.py: the
\* pixel coordinates as floats
ToFloats(lm) == [i \in DOMAIN lm |-> Rat(lm[i], CoordUnit)]

\* what detect_landmarks returns for a frame: None or a hand
MainPoses == {NoPose, PoseOf(<<1, 1, 0>>, <<0, 2, 1>>, <<2, 0, 0>>)}

\* lines 59-72: detect, predict when landmarks were found, draw
MainFrame(pose, o) ==
    /\ main_pc = "frame"
    /\ landmarks' = pose
    /\ IF pose # NoPose
       THEN /\ predict("valid", o)
            /\ drawn' = lastRet'
            /\ classifier_input' =
                  IF model_loaded THEN ToFloats(pose) ELSE classifier_input
       ELSE /\ UNCHANGED translatorVars
            /\ drawn' = <<None, Zero>>
            /\ UNCHANGED classifier_input
    /\ main_pc' = "key"
    /\ UNCHANGED <<processed, motion, moved, checkVars, urlVars>>

\* lines 75-86: the key read by waitKey; 'q' leaves the loop, 'r' resets
MainKey(key) ==
    /\ main_pc = "key"
    /\ IF key = "r" THEN reset ELSE UNCHANGED translatorVars
    /\ main_pc' = IF key = "q" THEN "closed" ELSE "frame"
    /\ UNCHANGED <<drawn, classifier_input, detectorVars, checkVars, urlVars>>

Frame == \E pose \in MainPoses : \E o \in ClassifierOutcomes("valid") : MainFrame(pose, o)

Key == \E key \in {"none", "r", "s", "q"} : MainKey(key)

----------------------------------------------------------------------------
(* url-shortener: the strings the two Lambda functions handle *)

\* how many short codes random generation can produce
NumCodes == 2
\* how many clicks an item counts
MaxClicks == 1
\* generate_unique_short_code(max_attempts=10)
max_attempts == 10

\* string.ascii_letters + string.digits
AlnumChars ==
    {"a", "b", "c", "d", "e", "f", "g", "h", "i", "j", "k", "l", "m", "n", "o",
     "p", "q", "r", "s", "t", "u", "v", "w", "x", "y", "z",
     "A", "B", "C", "D", "E", "F", "G", "H", "I", "J", "K", "L", "M", "N", "O",
     "P", "Q", "R", "S", "T", "U", "V", "W", "X", "Y", "Z",
     "0", "1", "2", "3", "4", "5", "6", "7", "8", "9"}

\* a short code is the sequence of its characters; generate_short_code draws
\* 3 to 8 characters of AlnumChars
CodeList == << <<"a", "b", "c">>,
               <<"X", "y", "9", "z", "Q", "r", "7", "T">>,
               <<"K", "4", "m", "p">>,
               <<"0", "0", "0", "0", "0">> >>
GenCodes == {CodeList[i] : i \in 1..NumCodes}

AllAlnum(c) == \A i \in DOMAIN c : c[i] \in AlnumChars

\* is_valid_short_code: re.compile(r'^[a-zA-Z0-9]{3,8}$').match(short_code);
\* $ matches at the end of the string and also before a newline that ends it
is_valid_short_code(c) ==
    \/ Len(c) >= 3 /\ Len(c) <= 8 /\ AllAlnum(c)
    \/ /\ Len(c) >= 4 /\ Len(c) <= 9
       /\ c[Len(c)] = "\n"
       /\ AllAlnum(SubSeq(c, 1, Len(c) - 1))

\* a string offered as long_url: its text without surrounding whitespace,
\* split as is_valid_url's pattern splits it, and the whitespace around it
\* (none, spaces on both sides, or one newline at the end)
Text(scheme, host, tail) == [scheme |-> scheme, host |-> host, tail |-> tail]
BlankText == Text("", "", "")
Str(text, pad) == [text |-> text, pad |-> pad]
EmptyStr == Str(BlankText, "none")

StripNothing(s) == s

\* str.strip()
Strip(s) == Str(s.text, "none")

\* is_valid_url: ^https?:// with IGNORECASE
SchemeMatches(scheme) == scheme \in {"http", "https", "HTTP", "HTTPS"}
\* a dotted domain, localhost or four groups of digits, and an optional port
HostMatches(host) == host \in {"example.com", "localhost:8080", "999.1.1.1"}
\* (?:/?|[/?]\S+)
TailMatches(tail) == tail \in {"", "/", "/a?b=1"}

\* is_valid_url: the pattern is anchored at both ends, so no whitespace is
\* allowed around the text except a newline that ends the string
is_valid_url(s) ==
    /\ s.pad \in {"none", "newline"}
    /\ SchemeMatches(s.text.scheme)
    /\ HostMatches(s.text.host)
    /\ TailMatches(s.text.tail)

\* the strings sent as long_url: a blank one and one the pattern matches,
\* each bare, between spaces and before a newline, and three that fail the
\* pattern in the scheme, the host and the tail
Texts == {BlankText, Text("HTTP", "localhost:8080", "/a?b=1")}
BadTexts == {Text("ftp", "example.com", ""),
             Text("https", "exa_mple", "/"),
             Text("https", "example.com", "/x y")}
Strs == {Str(t, pad) : t \in Texts, pad \in {"none", "spaces", "newline"}}
            \cup {Str(t, "none") : t \in BadTexts}

----------------------------------------------------------------------------
(* url-shortener: the DynamoDB table *)

\* the item stored under a short code, if any
NoItem == [present |-> FALSE, long_url |-> EmptyStr, click_count |-> 0]
Item(long_url, clicks) == [present |-> TRUE, long_url |-> long_url, click_count |-> clicks]

EmptyTable == [c \in GenCodes |-> NoItem]

\* table.get_item(Key={'short_code': c}) when it does not raise
GetItem(c) == IF c \in GenCodes THEN table[c] ELSE NoItem

\* what a Lambda function answers: a status, and the short_code and the
\* long_url (shortenr's body on 200, redirector's Location on 301) if any
Response(status, code, url) == [status |-> status, short_code |-> code, long_url |-> url]

NoCall == [fn |-> "none", event |-> "none", response |-> Response(0, <<>>, EmptyStr),
           lookup |-> "none", update |-> "none"]

----------------------------------------------------------------------------
(* url-shortener: shortenr.lambda_handler *)

NotInTableUnchecked(c) == TRUE

\* generate_unique_short_code line 128: 'Item' not in response
NotInTable(c) == ~table[c].present

Generated(c) == [raised |-> FALSE, code |-> c]
GenerationFailed == [raised |-> TRUE, code |-> <<>>]

\* generate_unique_short_code: each attempt draws a code and returns it if
\* get_item succeeds and finds no item; an item found or a get_item that
\* raises leads to the next attempt, and running out of attempts raises
RECURSIVE generate_unique_short_code(_)
generate_unique_short_code(attempts) ==
    IF attempts = 0
    THEN {GenerationFailed}
    ELSE {Generated(c) : c \in {g \in GenCodes : NotInTable(g)}}
            \cup generate_unique_short_code(attempts - 1)

\* the request bodies: absent, the empty string, text that is not JSON, JSON
\* that is no object, an object without long_url, with a null long_url, or
\* with a string
Body(kind, long_url) == [kind |-> kind, long_url |-> long_url]
Bodies ==
    {Body(k, EmptyStr) : k \in {"missing", "empty", "not_json", "not_object",
                                "no_long_url", "null_long_url"}}
        \cup {Body("long_url", s) : s \in Strs}

ShortenEvent(method, body) == [httpMethod |-> method, body |-> body]
ShortenEvents ==
    {ShortenEvent("POST", b) : b \in Bodies} \cup
    {ShortenEvent("OPTIONS", b) :
        b \in {Body("missing", EmptyStr),
               Body("long_url", Str(Text("HTTP", "localhost:8080", "/a?b=1"), "none"))}}

\* lambda_handler of shortenr.py: lines 39-92
shortenr(ev, gen, put_ok) ==
    LET replies(status) ==
            /\ lastCall' = [fn |-> "shortenr", event |-> ev,
                            response |-> Response(status, <<>>, EmptyStr),
                            lookup |-> "none", update |-> "none"]
            /\ UNCHANGED <<table, issued>>
        long_url == IF ev.body.kind = "long_url" THEN Strip(ev.body.long_url)
                    ELSE EmptyStr
    IN  /\ preTable' = table
        /\ IF ev.httpMethod = "OPTIONS" THEN replies(200)
           ELSE IF ev.body.kind \in {"missing", "empty"} THEN replies(400)
           ELSE IF ev.body.kind = "not_json" THEN replies(400)
           \* body.get on a list, .strip() on None: the handler of line 90
           ELSE IF ev.body.kind \in {"not_object", "null_long_url"} THEN replies(500)
           ELSE IF long_url = EmptyStr THEN replies(400)
           ELSE IF ~is_valid_url(long_url) THEN replies(400)
           ELSE IF gen.raised \/ ~put_ok THEN replies(500)
           ELSE /\ table' = [table EXCEPT ![gen.code] = Item(long_url, 0)]
                /\ issued' = [issued EXCEPT ![gen.code] = ev.body.long_url]
                /\ lastCall' = [fn |-> "shortenr", event |-> ev,
                                response |-> Response(200, gen.code, long_url),
                                lookup |-> "none", update |-> "none"]

Shorten ==
    /\ \E ev \in ShortenEvents : \E gen \in generate_unique_short_code(max_attempts) :
          \E put_ok \in BOOLEAN : shortenr(ev, gen, put_ok)
    /\ UNCHANGED <<inv, clicks_done>>
    /\ UNCHANGED <<translatorVars, detectorVars, checkVars, mainVars>>

----------------------------------------------------------------------------
(* url-shortener: redirector.lambda_handler *)

\* the path parameters: none (or an empty dict), a dict without short_code,
\* a null short_code, or a short_code string
RedirectEvent(path, code) == [pathParameters |-> path, short_code |-> code]
RequestCodes ==
    GenCodes \cup
    {<<>>,
     <<"a", "b">>,
     <<"a", "b", "d">>,
     <<"a", "b", "c", "d", "e", "f", "g", "h", "i">>,
     <<"a", "b", "-", "c">>,
     <<"a", "b", "c", "\n">>}
RedirectEvents ==
    {RedirectEvent(p, <<>>) : p \in {"absent", "no_short_code", "null_short_code"}}
        \cup {RedirectEvent("given", c) : c \in RequestCodes}

\* lambda_handler of redirector.py: lines 30-78; get_ok and update_ok say
\* whether get_item and update_item return or raise
redirector(ev, get_ok, update_ok) ==
    LET replies(status, lookup) ==
            /\ lastCall' = [fn |-> "redirector", event |-> ev,
                            response |-> Response(status, <<>>, EmptyStr),
                            lookup |-> lookup, update |-> "none"]
            /\ UNCHANGED table
        short_code == ev.short_code
        \* get_url_mapping: None when get_item raises
        url_data == IF get_ok THEN GetItem(short_code) ELSE NoItem
    IN  /\ preTable' = table
        /\ UNCHANGED issued
        /\ IF ev.pathParameters \in {"absent", "no_short_code"} THEN replies(400, "none")
           \* pattern.match(None) raises a TypeError: the handler of line 76
           ELSE IF ev.pathParameters = "null_short_code" THEN replies(500, "none")
           ELSE IF ~is_valid_short_code(short_code) THEN replies(400, "none")
           ELSE IF ~url_data.present
                THEN replies(404, IF get_ok THEN "ok" ELSE "raised")
           ELSE /\ update_ok => url_data.click_count < MaxClicks
                /\ table' = IF update_ok
                             THEN [table EXCEPT ![short_code].click_count = @ + 1]
                             ELSE table
                /\ lastCall' = [fn |-> "redirector", event |-> ev,
                                response |-> Response(301, <<>>, url_data.long_url),
                                lookup |-> "ok",
                                update |-> IF update_ok THEN "ok" ELSE "raised"]

Redirect ==
    /\ \E ev \in RedirectEvents : \E get_ok \in BOOLEAN : \E update_ok \in BOOLEAN :
          redirector(ev, get_ok, update_ok)
    /\ UNCHANGED <<inv, clicks_done>>
    /\ UNCHANGED <<translatorVars, detectorVars, checkVars, mainVars>>

----------------------------------------------------------------------------
(* url-shortener: concurrent invocations, one table call per step *)

\* the invocations that may be in progress at once
Invocations == {"i1", "i2"}

\* an invocation's position and live locals: the function, its long_url or
\* short_code, the attempts made by generate_unique_short_code, the outcome
\* of its last table call, the click_count that get_item saw, and the status
\* it answered. A local is kept only while the code can still read it.
Idle == [pc |-> "idle", fn |-> "none", url |-> EmptyStr, code |-> <<>>,
         attempts |-> 0, lookup |-> "none", seen |-> 0, status |-> 0]

\* the long_url each client submits: two different URLs shortenr accepts
ConcUrls == [i1 |-> Str(Text("HTTP", "localhost:8080", "/a?b=1"), "none"),
             i2 |-> Str(Text("https", "example.com", ""), "none")]
\* the codes random.choices yields in these runs: the same short list for
\* every invocation, so that two of them can draw the same code
ConcDraws == {CodeList[1], CodeList[2]}
\* the codes redirects ask for: the generated ones, one that is too short
\* and one that is never generated
ConcCodes == ConcDraws \cup {<<"a", "b">>, <<"a", "b", "d">>}

\* shortenr.lambda_handler up to line 68: the request is valid, the handler
\* enters generate_unique_short_code
StartShorten(p) ==
    /\ inv[p].pc \in {"idle", "done"}
    /\ is_valid_url(ConcUrls[p])
    /\ inv' = [inv EXCEPT ![p] = [Idle EXCEPT !.pc = "gen", !.fn = "shortenr",
                                               !.url = ConcUrls[p]]]
    /\ UNCHANGED <<table, clicks_done>>

ReturnsUnlessFound(get_ok, c) == ~get_ok \/ NotInTable(c)

\* generate_unique_short_code lines 127-129: get_item returned and the
\* response holds no Item
ReturnsCode(get_ok, c) == get_ok /\ NotInTable(c)

\* one pass of the loop of generate_unique_short_code: a code is drawn and
\* looked up; the function returns it or goes on
GenAttempt(p, c, get_ok) ==
    /\ inv[p].pc = "gen"
    /\ inv[p].attempts < max_attempts
    /\ inv' = [inv EXCEPT ![p] =
                 [@ EXCEPT !.attempts = @ + 1,
                           !.code = IF ReturnsCode(get_ok, c) THEN c ELSE <<>>,
                           !.lookup = IF ~get_ok THEN "failed"
                                      ELSE IF NotInTable(c) THEN "free" ELSE "taken",
                           !.pc = IF ReturnsCode(get_ok, c) THEN "put" ELSE "gen"]]
    /\ UNCHANGED <<table, clicks_done>>

\* line 135: the loop ran out, the exception reaches the handler of line 90
GenExhausted(p) ==
    /\ inv[p].pc = "gen"
    /\ inv[p].attempts >= max_attempts
    /\ inv' = [inv EXCEPT ![p] = [@ EXCEPT !.pc = "done", !.status = 500]]
    /\ UNCHANGED <<table, clicks_done>>

\* store_url_mapping: put_item without a condition, then the 200 response
PutItem(p, put_ok) ==
    /\ inv[p].pc = "put"
    /\ IF put_ok
       THEN /\ table' = [table EXCEPT ![inv[p].code] = Item(inv[p].url, 0)]
            /\ clicks_done' = [clicks_done EXCEPT ![inv[p].code] = 0]
            /\ inv' = [inv EXCEPT ![p] = [@ EXCEPT !.pc = "done", !.status = 200,
                                                     !.attempts = 0]]
       ELSE /\ inv' = [inv EXCEPT ![p] = [@ EXCEPT !.pc = "done", !.status = 500,
                                                     !.attempts = 0]]
            /\ UNCHANGED <<table, clicks_done>>

\* redirector.lambda_handler up to line 41: the 400 of a malformed code, or
\* on to get_url_mapping
StartRedirect(p, c) ==
    /\ inv[p].pc \in {"idle", "done"}
    /\ inv' = [inv EXCEPT ![p] =
                 IF is_valid_short_code(c)
                 THEN [Idle EXCEPT !.pc = "lookup", !.fn = "redirector", !.code = c]
                 ELSE [Idle EXCEPT !.pc = "done", !.fn = "redirector", !.code = c,
                                   !.status = 400]]
    /\ UNCHANGED <<table, clicks_done>>

\* get_url_mapping and lines 44-48
LookupItem(p, get_ok) ==
    LET item == IF get_ok THEN GetItem(inv[p].code) ELSE NoItem
    IN  /\ inv[p].pc = "lookup"
        /\ inv' = [inv EXCEPT ![p] =
                     IF item.present
                     THEN [@ EXCEPT !.pc = "update", !.lookup = "taken",
                                    !.seen = item.click_count]
                     ELSE [@ EXCEPT !.pc = "done", !.status = 404,
                                    !.lookup = IF get_ok THEN "free" ELSE "failed"]]
        /\ UNCHANGED <<table, clicks_done>>

ClickAfterWrite(seen, stored) == seen + 1

\* update_item with ADD click_count :inc: DynamoDB adds 1 to the stored value
\* in one atomic operation
ClickAfterAdd(seen, stored) == stored + 1

\* update_click_count and the 301 of lines 60-74; the counter is capped at
\* MaxClicks + 1, which leaves room for one click of each invocation
UpdateItem(p, update_ok) ==
    LET c == inv[p].code
    IN  /\ inv[p].pc = "update"
        /\ inv' = [inv EXCEPT ![p] =
                     [@ EXCEPT !.pc = "done", !.status = 301, !.seen = 0,
                               !.lookup = IF update_ok THEN "updated" ELSE "taken"]]
        /\ IF update_ok
           THEN /\ clicks_done[c] <= MaxClicks
                /\ table' = [table EXCEPT ![c].click_count =
                                 ClickAfterAdd(inv[p].seen, @)]
                /\ clicks_done' = [clicks_done EXCEPT ![c] = @ + 1]
           ELSE UNCHANGED <<table, clicks_done>>

ShortenStep ==
    /\ \E p \in Invocations :
          \/ StartShorten(p)
          \/ \E c \in ConcDraws : \E get_ok \in BOOLEAN : GenAttempt(p, c, get_ok)
          \/ GenExhausted(p)
          \/ \E put_ok \in BOOLEAN : PutItem(p, put_ok)
    /\ UNCHANGED <<preTable, lastCall, issued>>
    /\ UNCHANGED <<translatorVars, detectorVars, checkVars, mainVars>>

RedirectStep ==
    /\ \E p \in Invocations :
          \/ \E c \in ConcCodes : StartRedirect(p, c)
          \/ \E get_ok \in BOOLEAN : LookupItem(p, get_ok)
          \/ \E update_ok \in BOOLEAN : UpdateItem(p, update_ok)
    /\ UNCHANGED <<preTable, lastCall, issued>>
    /\ UNCHANGED <<translatorVars, detectorVars, checkVars, mainVars>>

----------------------------------------------------------------------------
(* Specifications *)

InitDetectorIdle ==
    /\ landmarks = NoPose
    /\ processed = NotRun
    /\ motion = NoMotion
    /\ moved = NotRun

InitMainIdle ==
    /\ main_pc = "frame"
    /\ drawn = <<None, Zero>>
    /\ classifier_input = NoPose

InitChecksIdle ==
    /\ frame_shape = <<CAMERA_HEIGHT, CAMERA_WIDTH>>
    /\ region = NoRegion
    /\ candidate = AbsentArray
    /\ valid_result = NotValidated

InitUrlIdle ==
    /\ table = EmptyTable
    /\ preTable = EmptyTable
    /\ lastCall = NoCall
    /\ issued = [c \in GenCodes |-> EmptyStr]
    /\ inv = [p \in Invocations |-> Idle]
    /\ clicks_done = [c \in GenCodes |-> 0]

Init ==
    /\ Construct(SMOOTHING_WINDOW, GESTURE_THRESHOLD)
    /\ InitDetectorIdle
    /\ InitChecksIdle
    /\ InitMainIdle
    /\ InitUrlIdle

Next == Predict \/ Reset

Spec == Init /\ [][Next]_vars

\* values of the two tunables a config module may hold: a negative, a zero
\* and a positive capacity; a threshold below 0, the default and one above 1
CfgWindows == {-1, 0, 2}
CfgThresholds == {-10, GESTURE_THRESHOLD, 110}

InitCfg ==
    /\ \E w \in CfgWindows : \E t \in CfgThresholds : Construct(w, t)
    /\ InitDetectorIdle
    /\ InitChecksIdle
    /\ InitMainIdle
    /\ InitUrlIdle

SpecCfg == InitCfg /\ [][Next]_vars

\* the normalizer applied to every pose of Poses
InitNorm ==
    /\ Construct(SMOOTHING_WINDOW, GESTURE_THRESHOLD)
    /\ model_loaded
    /\ landmarks \in Poses
    /\ processed = NotRun
    /\ motion = NoMotion
    /\ moved = NotRun
    /\ InitChecksIdle
    /\ InitMainIdle
    /\ InitUrlIdle

NextNorm == Preprocess

\* the normalizer applied to a pose of MovePoses and to its shifted or
\* scaled copy
InitMove ==
    /\ Construct(SMOOTHING_WINDOW, GESTURE_THRESHOLD)
    /\ model_loaded
    /\ landmarks \in MovePoses
    /\ processed = NotRun
    /\ motion \in Motions
    /\ moved = NotRun
    /\ InitChecksIdle
    /\ InitMainIdle
    /\ InitUrlIdle

NextMove == PreprocessBoth

SpecMove == InitMove /\ [][NextMove]_vars

SpecNorm == InitNorm /\ [][NextNorm]_vars

\* get_hand_region applied to every pose of RegionPoses
InitRegion ==
    /\ Construct(SMOOTHING_WINDOW, GESTURE_THRESHOLD)
    /\ model_loaded
    /\ landmarks \in RegionPoses
    /\ processed = NotRun
    /\ motion = NoMotion
    /\ moved = NotRun
    /\ frame_shape \in FrameShapes
    /\ region = NoRegion
    /\ candidate = AbsentArray
    /\ valid_result = NotValidated
    /\ InitMainIdle
    /\ InitUrlIdle

NextRegion == GetHandRegion

SpecRegion == InitRegion /\ [][NextRegion]_vars

\* validate_landmarks applied to every array of Candidates
InitValid ==
    /\ Construct(SMOOTHING_WINDOW, GESTURE_THRESHOLD)
    /\ model_loaded
    /\ InitDetectorIdle
    /\ frame_shape = <<CAMERA_HEIGHT, CAMERA_WIDTH>>
    /\ region = NoRegion
    /\ candidate \in Candidates
    /\ valid_result = NotValidated
    /\ InitMainIdle
    /\ InitUrlIdle

NextValid == Validate

SpecValid == InitValid /\ [][NextValid]_vars

\* the two Lambda functions invoked in any order on one table
NextUrl == Shorten \/ Redirect

InitUrl == Init /\ model_loaded

SpecUrl == InitUrl /\ [][NextUrl]_vars

\* invocations of the two Lambda functions interleaved at their table calls
NextConc == ShortenStep \/ RedirectStep

SpecConc == InitUrl /\ [][NextConc]_vars

\* main's loop
NextMain == Frame \/ Key

SpecMain == Init /\ [][NextMain]_vars

----------------------------------------------------------------------------
(* Vocabulary of the claims *)

\* how often label l occurs in window h
CountOf(l, h) == Cardinality({i \in DOMAIN h : h[i][1] = l})

\* the position of the oldest entry of h that carries label l
FirstIndexOf(l, h) ==
    CHOOSE i \in DOMAIN h : h[i][1] = l /\ \A j \in 1..(i - 1) : h[j][1] # l

LabelsIn(h) == {h[i][1] : i \in DOMAIN h}

LabelsOf(h) == [i \in DOMAIN h |-> h[i][1]]

RECURSIVE SumConf(_)
SumConf(h) == IF h = <<>> THEN 0 ELSE Head(h)[2] + SumConf(Tail(h))

\* the last call was a predict whose frame passed every check: a model is
\* loaded, landmarks were given, and the classifier's top confidence is above
\* the threshold
AcceptedCall ==
    /\ lastOp = "predict"
    /\ model_loaded
    /\ lastLandmarks # "absent"
    /\ lastOutcome.kind = "probs"
    /\ lastOutcome.conf > gesture_threshold

\* the last call was a predict on a bad or empty frame
BadCall ==
    /\ lastOp = "predict"
    /\ \/ ~model_loaded
       \/ lastLandmarks = "absent"
       \/ lastOutcome.kind \in {"raise", "nan"}
       \/ lastOutcome.kind = "probs" /\ lastOutcome.conf <= gesture_threshold

\* the entry an accepted call pushes
PushedEntry == <<ASL_CLASSES[lastOutcome.idx + 1], lastOutcome.conf>>

----------------------------------------------------------------------------
(* Claims about the prediction stabilizer *)

\* C1: prediction_history never holds more than SMOOTHING_WINDOW entries, and
\* an accepted prediction arriving at a full window removes exactly the
\* oldest entry, keeps the others in order and puts the new entry last.
C1_WindowEvictsOldest ==
    /\ Len(prediction_history) <= SMOOTHING_WINDOW
    /\ (AcceptedCall /\ Len(preHistory) = SMOOTHING_WINDOW) =>
          /\ Len(prediction_history) = SMOOTHING_WINDOW
          /\ \A i \in 1..(SMOOTHING_WINDOW - 1) :
                prediction_history[i] = preHistory[i + 1]
          /\ prediction_history[SMOOTHING_WINDOW] = PushedEntry

C1_Witness ==
    /\ AcceptedCall
    /\ Len(preHistory) = SMOOTHING_WINDOW
    /\ preHistory[1] # preHistory[2]
    /\ prediction_history[1] = preHistory[2]
    /\ PushedEntry # preHistory[1]

\* C2: after an accepted prediction the returned label occurs in the window
\* at least as often as every other label of the window.
C2_MajorityLabel ==
    AcceptedCall =>
        /\ lastRet[1] \in LabelsIn(prediction_history)
        /\ \A l \in LabelsIn(prediction_history) :
              CountOf(l, prediction_history) <= CountOf(lastRet[1], prediction_history)

C2_Witness ==
    /\ AcceptedCall
    /\ LabelsOf(preHistory) = <<"A", "A", "B", "A", "B">>
    /\ LabelsOf(prediction_history) = <<"A", "B", "A", "B", "B">>
    /\ lastRet[1] = "B"

\* C3: when several labels tie for the highest count, the returned label is
\* the tied label whose oldest entry is oldest.
C3_TieBreakFirstSeen ==
    AcceptedCall =>
        LET h == prediction_history
            top == {l \in LabelsIn(h) : \A k \in LabelsIn(h) : CountOf(k, h) <= CountOf(l, h)}
        IN  Cardinality(top) >= 2 =>
              /\ lastRet[1] \in top
              /\ \A l \in top : FirstIndexOf(lastRet[1], h) <= FirstIndexOf(l, h)

C3_Witness ==
    /\ AcceptedCall
    /\ preHistory = <<>> \o <<<<"A", 90>>>>
    /\ prediction_history = <<<<"A", 90>>, <<"B", 90>>>>
    /\ lastRet[1] = "A"

\* C4: the confidence an accepted prediction returns is the sum of the
\* confidences of all entries of the window divided by their number.
C4_MeanOfWindow ==
    AcceptedCall =>
        /\ lastRet[2][2] > 0
        /\ lastRet[2][1] * Len(prediction_history)
             = SumConf(prediction_history) * lastRet[2][2]

\* two A at 0.8 and one B at 0.9: the mean of all three is 250/3, the mean of
\* the winning label's entries would be 80
C4_Witness ==
    /\ AcceptedCall
    /\ prediction_history = <<<<"A", 80>>, <<"A", 80>>, <<"B", 90>>>>
    /\ lastRet = <<"A", <<250, 3>>>>

\* C5: reset leaves the history empty and the current prediction ("", 0.0),
\* and a second reset right after it changes nothing.
C5_ResetClearsIdempotent ==
    lastOp = "reset" =>
        /\ prediction_history = <<>>
        /\ get_current_prediction = <<"", <<0, 1>>>>
        /\ ENABLED reset
        /\ ~ENABLED (reset /\ <<prediction_history', current_prediction',
                                current_confidence'>>
                              # <<prediction_history, current_prediction,
                                  current_confidence>>)

C5_Witness ==
    /\ lastOp = "reset"
    /\ Len(preHistory) = SMOOTHING_WINDOW
    /\ prediction_history = <<>>

\* C6: a predict call on a bad or empty frame leaves prediction_history,
\* current_prediction and current_confidence as they were.
C6_BadFrameKeepsState ==
    [][BadCall' => UNCHANGED <<prediction_history, current_prediction,
                               current_confidence>>]_vars

C6_Witness ==
    /\ BadCall
    /\ model_loaded
    /\ lastOutcome = Probs(0, GESTURE_THRESHOLD)
    /\ Len(prediction_history) = SMOOTHING_WINDOW
    /\ current_prediction = "B"

----------------------------------------------------------------------------
(* Claims about the landmark normalizer *)

Keypoints == 0..(NumKeypoints - 1)

\* the wrist-translated raw coordinate of keypoint k on axis c (0 is x, 1 is y)
Translated(k, c) == landmarks[3 * k + c + 1] - landmarks[c + 1]

AxisMin(c) ==
    CHOOSE m \in {Translated(k, c) : k \in Keypoints} :
        \A k \in Keypoints : m <= Translated(k, c)

AxisMax(c) ==
    CHOOSE m \in {Translated(k, c) : k \in Keypoints} :
        \A k \in Keypoints : m >= Translated(k, c)

\* max(max - min, 1 pixel) of axis c
AxisSpan(c) == Max2(AxisMax(c) - AxisMin(c), CoordUnit)

\* the output component of keypoint k on axis c
Out(k, c) == processed.value[3 * k + c + 1]

Normalized == processed.done /\ landmarks # NoPose

\* C7: every x and every y component of preprocess_landmarks(pose) lies in
\* [-1, 1].
C7_XYWithinUnitBox ==
    Normalized =>
        \A k \in Keypoints : \A c \in {0, 1} :
            LET v == Out(k, c)
            IN  v[2] > 0 /\ -v[2] <= v[1] /\ v[1] <= v[2]

\* a pose whose x components reach both ends of the box and a value strictly
\* inside, and whose y range is below one pixel
C7_Witness ==
    /\ Normalized
    /\ Out(0, 0) = <<0, 1>>
    /\ Out(1, 0) = <<-1, 1>>
    /\ Out(2, 0) = <<1, 1>>
    /\ AxisMax(1) - AxisMin(1) < CoordUnit
    /\ Out(1, 1) = <<-1, 1>>

\* C8: the normalized x of keypoint k is ((x_k - x_0) - x_min) / x_range * 2 - 1
\* with x_min and x_range = max(x_max - x_min, 1) taken over the
\* wrist-translated x of all keypoints, y likewise with its own minimum and
\* range, and element 0 is (0 - x_min) / x_range * 2 - 1.
C8_RescaleFormula ==
    Normalized =>
        LET x_lo == AxisMin(0)
            y_lo == AxisMin(1)
            x_span == Max2(AxisMax(0) - x_lo, CoordUnit)
            y_span == Max2(AxisMax(1) - y_lo, CoordUnit)
            Agrees(v, t, lo, span) ==
                v[2] > 0 /\ v[1] * span = v[2] * (2 * (t - lo) - span)
        IN  /\ \A k \in Keypoints :
                  /\ Agrees(Out(k, 0), Translated(k, 0), x_lo, x_span)
                  /\ Agrees(Out(k, 1), Translated(k, 1), y_lo, y_span)
            /\ Agrees(processed.value[1], 0, x_lo, x_span)

\* the x range is 2 and the y range 1; the wrist is in the middle of the x
\* range and at the upper end of the y range
C8_Witness ==
    /\ Normalized
    /\ AxisSpan(0) = 2
    /\ AxisSpan(1) = 1
    /\ AxisMin(0) = -1
    /\ AxisMin(1) = -1
    /\ processed.value[1] = <<0, 1>>
    /\ processed.value[2] = <<1, 1>>

\* every keypoint of the pose is where the wrist is
Degenerate ==
    /\ landmarks # NoPose
    /\ \A k \in Keypoints : \A c \in 1..3 : landmarks[3 * k + c] = landmarks[c]

\* C16: for a pose whose 21 keypoints coincide, preprocess_landmarks gives a
\* defined vector: every x and every y component is -1 (both ranges being
\* floored to 1) and every z component is 0.
C16_DegeneratePoseDefined ==
    (Normalized /\ Degenerate) =>
        /\ Len(processed.value) = 3 * NumKeypoints
        /\ \A k \in Keypoints :
              /\ Out(k, 0) = <<-1, 1>>
              /\ Out(k, 1) = <<-1, 1>>
              /\ Out(k, 2) = <<0, 1>>

\* all keypoints at a point away from the origin
C16_Witness ==
    /\ Normalized
    /\ Degenerate
    /\ landmarks[1] = 2 /\ landmarks[2] = 1 /\ landmarks[3] = 1
    /\ processed.value[1] = <<-1, 1>>

\* C22: the z component of keypoint k in the output of preprocess_landmarks
\* is the input z of k minus the wrist's z, neither rescaled nor clamped, and
\* the wrist's own output z is 0.
C22_DepthTranslatedOnly ==
    Normalized =>
        /\ processed.value[3] = <<0, 1>>
        /\ \A k \in Keypoints :
              /\ Out(k, 2)[2] > 0
              /\ Out(k, 2)[1] * CoordUnit
                    = (landmarks[3 * k + 3] - landmarks[3]) * Out(k, 2)[2]

\* a keypoint whose depth is farther from the wrist's than the rescaled x
\* and y can be from their centre, in a pose whose x is rescaled
C22_Witness ==
    /\ Normalized
    /\ landmarks[3] = -MaxDepth /\ landmarks[6] = MaxDepth /\ landmarks[9] = 0
    /\ Out(1, 2) = Rat(2 * MaxDepth, CoordUnit)
    /\ Out(2, 2) = Rat(MaxDepth, CoordUnit)
    /\ Out(1, 0) # Out(0, 0)

\* C23: adding one offset (dx, dy, dz) to all 21 keypoints of a pose leaves
\* the output of preprocess_landmarks exactly as it is.
C23_TranslationInvariant ==
    (Normalized /\ moved.done /\ motion.kind = "shift") =>
        moved.value = processed.value

\* a pose with three distinct keypoints, shifted in all three axes
C23_Witness ==
    /\ Normalized
    /\ moved.done
    /\ motion = Shift(MaxCoord + 1, -1, 2)
    /\ landmarks[1] # landmarks[4] /\ landmarks[2] # landmarks[5]
    /\ landmarks[3] # landmarks[6]
    /\ landmarks[7] = MaxCoord
    /\ moved.value = processed.value

\* every x and y of the pose is a whole number of pixels
IntegerPixels ==
    \A k \in Keypoints : \A c \in {1, 2} : landmarks[3 * k + c] % CoordUnit = 0

\* C24: multiplying every x and y of a pose with integer pixel coordinates by
\* an integer factor k >= 1 leaves every normalized x and y as it is, also
\* when an axis has range 0 and the floor of 1 applies.
C24_ScaleInvariant ==
    (Normalized /\ moved.done /\ motion.kind = "scale" /\ IntegerPixels) =>
        \A k \in Keypoints : \A c \in {1, 2} :
            moved.value[3 * k + c] = processed.value[3 * k + c]

\* all x equal, so that the x range is floored, and a y range of one pixel,
\* scaled by 3
C24_Witness ==
    /\ Normalized
    /\ moved.done
    /\ motion = Scale(3)
    /\ IntegerPixels
    /\ AxisSpan(0) = CoordUnit /\ AxisMax(0) = AxisMin(0)
    /\ AxisMax(1) - AxisMin(1) = CoordUnit
    /\ landmarks[1] = MaxCoord
    /\ moved.value[2] = processed.value[2]

----------------------------------------------------------------------------
(* Claims about the per-frame pipeline *)

\* C11: on every frame the pair handed to draw_results is what
\* get_current_prediction() returns once the frame is processed (a None
\* label counting as the empty label, which draw_results treats alike).
C11_DrawnIsCurrent ==
    main_pc = "key" =>
        <<IF drawn[1] = None THEN "" ELSE drawn[1], drawn[2]>> = get_current_prediction

\* C12: the array the classifier is invoked on in a frame is
\* preprocess_landmarks of that frame's detected pose.
C12_ClassifierFedNormalized ==
    (main_pc = "key" /\ landmarks # NoPose /\ model_loaded) =>
        classifier_input = preprocess_landmarks(landmarks)

----------------------------------------------------------------------------
(* Claims about the landmark checks *)

\* C14: validate_landmarks(v) is true exactly when v is present, has 63
\* elements, holds no NaN and no infinity, and the x and the y component of
\* every keypoint lie in [-1000, 1000]; no range is imposed on z.
C14_ValidIffWellFormed ==
    valid_result.done =>
        (valid_result.value <=>
            /\ candidate.present
            /\ Len(candidate.value) = 3 * NumKeypoints
            /\ \A i \in DOMAIN candidate.value : candidate.value[i][1] = "num"
            /\ \A k \in Keypoints : \A c \in {1, 2} :
                  /\ candidate.value[3 * k + c][2] >= -1000
                  /\ candidate.value[3 * k + c][2] <= 1000)

\* x of the first keypoint exactly at the bound, z of the last keypoint past
\* it: accepted
C14_Witness ==
    /\ valid_result = [done |-> TRUE, value |-> TRUE]
    /\ Len(candidate.value) = 63
    /\ candidate.value[1] = Num(-1000)
    /\ candidate.value[63] = Num(1001)

\* the x (c = 1) or y (c = 2) pixel of keypoint k
Pixel(k, c) == AsInt(landmarks[3 * k + c])

\* the keypoints' bounding box on axis c grown by 20 px and cut to [0, n]
ClippedLo(c) ==
    LET lo == CHOOSE m \in {Pixel(k, c) : k \in Keypoints} :
                  \A k \in Keypoints : m <= Pixel(k, c)
    IN  Max2(0, lo - 20)

ClippedHi(c, n) ==
    LET hi == CHOOSE m \in {Pixel(k, c) : k \in Keypoints} :
                  \A k \in Keypoints : m >= Pixel(k, c)
    IN  Min2(n, hi + 20)

\* C15: the rectangle get_hand_region crops is the keypoints' bounding box
\* padded by 20 px and clipped to the frame, with
\* 0 <= x_min <= x_max <= width and 0 <= y_min <= y_max <= height, and the
\* result is absent when the pose is absent or that rectangle has no area.
C15_RegionClippedToFrame ==
    region.done =>
        LET width == frame_shape[2]
            height == frame_shape[1]
        IN  /\ landmarks = NoPose => ~region.present
            /\ landmarks # NoPose =>
                  LET x0 == ClippedLo(1)
                      x1 == ClippedHi(1, width)
                      y0 == ClippedLo(2)
                      y1 == ClippedHi(2, height)
                  IN  /\ (x1 <= x0 \/ y1 <= y0) => ~region.present
                      /\ region.present =>
                            /\ region.rect = <<x0, x1, y0, y1>>
                            /\ 0 <= region.rect[1] /\ region.rect[1] <= region.rect[2]
                            /\ region.rect[2] <= width
                            /\ 0 <= region.rect[3] /\ region.rect[3] <= region.rect[4]
                            /\ region.rect[4] <= height

----------------------------------------------------------------------------
(* Claims about what the window holds and what is cached *)

\* C13: every entry of prediction_history has a confidence strictly above
\* GESTURE_THRESHOLD, and a frame whose top confidence is at or below the
\* threshold (equal included) leaves the history as it was.
C13_HistoryAboveThreshold ==
    /\ \A i \in DOMAIN prediction_history :
          prediction_history[i][2] > GESTURE_THRESHOLD
    /\ (/\ lastOp = "predict"
        /\ lastOutcome.kind = "probs"
        /\ lastOutcome.conf <= GESTURE_THRESHOLD) => prediction_history = preHistory

\* a frame exactly at the threshold arriving at a window that holds entries
C13_Witness ==
    /\ lastOp = "predict"
    /\ lastOutcome = Probs(1, GESTURE_THRESHOLD)
    /\ Len(preHistory) = 2
    /\ prediction_history = preHistory

\* the label of window h that occurs most often, the one seen first among
\* equals
MajorityOf(h) ==
    CHOOSE l \in LabelsIn(h) :
        \A k \in LabelsIn(h) :
            \/ CountOf(k, h) < CountOf(l, h)
            \/ CountOf(k, h) = CountOf(l, h) /\ FirstIndexOf(l, h) <= FirstIndexOf(k, h)

\* C20: the cached pair is the majority label and the mean confidence
\* recomputed from prediction_history, or ("", 0.0) when the history is
\* empty; an accepted frame returns the cached pair; the history is empty
\* exactly when the cached label is "".
C20_CacheMatchesHistory ==
    LET h == prediction_history
    IN  /\ h = <<>> => get_current_prediction = <<"", Zero>>
        /\ h # <<>> =>
              /\ current_prediction = MajorityOf(h)
              /\ current_confidence[2] > 0
              /\ current_confidence[1] * Len(h) = SumConf(h) * current_confidence[2]
        /\ AcceptedCall => lastRet = get_current_prediction
        /\ (h = <<>>) <=> (current_prediction = "")

\* the newest entry is not the majority and the mean differs from it
C20_Witness ==
    /\ AcceptedCall
    /\ prediction_history = <<<<"B", 90>>, <<"B", 80>>, <<"A", 90>>>>
    /\ get_current_prediction = <<"B", <<260, 3>>>>
    /\ lastRet = get_current_prediction

----------------------------------------------------------------------------
(* Claims about the URL shortener *)

\* the last call was a redirect for a code that shortenr handed out in a 200
\* response
RedirectOfIssued ==
    /\ lastCall.fn = "redirector"
    /\ lastCall.event.pathParameters = "given"
    /\ lastCall.event.short_code \in GenCodes
    /\ issued[lastCall.event.short_code] # EmptyStr

\* C17: once shortenr has answered 200 with short_code c for a valid
\* long_url u, redirector called for c answers 301 with Location u.
C17_RoundTrip ==
    (RedirectOfIssued /\ is_valid_url(issued[lastCall.event.short_code])) =>
        /\ lastCall.response.status = 301
        /\ lastCall.response.long_url = issued[lastCall.event.short_code]

\* C17, amended: once shortenr has answered 200 with short_code c for a
\* long_url u, redirector called for c answers 301 with Location u without
\* its surrounding whitespace when its get_item call returns, and 404 when
\* that call raises.
C17_RoundTripWhenLookupReturns ==
    RedirectOfIssued =>
        /\ lastCall.lookup \in {"ok", "raised"}
        /\ lastCall.lookup = "ok" =>
              /\ lastCall.response.status = 301
              /\ lastCall.response.long_url.text = issued[lastCall.event.short_code].text
              /\ lastCall.response.long_url.pad = "none"
        /\ lastCall.lookup = "raised" => lastCall.response.status = 404

\* a URL submitted with a newline at its end, redirected once more after
\* its click count was updated
C17_Witness ==
    /\ RedirectOfIssued
    /\ lastCall.event.short_code = CodeList[2]
    /\ issued[CodeList[2]] = Str(Text("HTTP", "localhost:8080", "/a?b=1"), "newline")
    /\ lastCall.response.status = 301
    /\ lastCall.response.long_url = Str(Text("HTTP", "localhost:8080", "/a?b=1"), "none")
    /\ preTable[CodeList[2]].click_count = MaxClicks

\* C18: redirector answers 400 when the path parameters or the short_code
\* are missing or the code is not 3 to 8 alphanumeric characters, 404 when
\* the table holds no item for a well-formed code, and 301 with the stored
\* long_url as Location otherwise, whether or not the click count could be
\* updated.
C18_RedirectorStatuses ==
    lastCall.fn = "redirector" =>
        LET ev == lastCall.event
            c == ev.short_code
            wellFormed == Len(c) >= 3 /\ Len(c) <= 8 /\ AllAlnum(c)
            stored == IF c \in GenCodes THEN preTable[c] ELSE NoItem
        IN  /\ ev.pathParameters \in {"absent", "no_short_code"} =>
                  lastCall.response.status = 400
            /\ ev.pathParameters = "given" =>
                  /\ ~wellFormed => lastCall.response.status = 400
                  /\ (wellFormed /\ ~stored.present) => lastCall.response.status = 404
                  /\ (wellFormed /\ stored.present) =>
                        /\ lastCall.response.status = 301
                        /\ lastCall.response.long_url = stored.long_url

\* C19: shortenr answers 200 to OPTIONS and 400 to a missing or empty body,
\* a body that is not JSON, a missing or blank long_url and a long_url
\* (stripped, as the handler holds it) that is_valid_url rejects; none of
\* these calls and no call answered 500 changes the table; the table
\* changes only in a call answered 200, by one item under a short_code that
\* had none.
C19_ShortenrWritesOnlyOnSuccess ==
    lastCall.fn = "shortenr" =>
        LET ev == lastCall.event
            resp == lastCall.response
            post == ev.httpMethod # "OPTIONS"
        IN  /\ ~post => (resp.status = 200 /\ table = preTable)
            /\ (post /\ ev.body.kind \in {"missing", "empty", "not_json", "no_long_url"})
                  => resp.status = 400
            /\ (post /\ ev.body.kind = "long_url" /\ ev.body.long_url.text = BlankText)
                  => resp.status = 400
            /\ (post /\ ev.body.kind = "long_url"
                     /\ ~is_valid_url(Str(ev.body.long_url.text, "none")))
                  => resp.status = 400
            /\ resp.status \in {400, 500} => table = preTable
            /\ table # preTable =>
                  /\ resp.status = 200
                  /\ resp.short_code \in GenCodes
                  /\ ~preTable[resp.short_code].present
                  /\ table = [preTable EXCEPT ![resp.short_code] = Item(resp.long_url, 0)]
            /\ (post /\ resp.status = 200) => table # preTable

\* a second URL stored next to an item that has been clicked
C19_Witness ==
    /\ lastCall.fn = "shortenr"
    /\ lastCall.response.status = 200
    /\ lastCall.response.short_code = CodeList[2]
    /\ lastCall.event.body.long_url.pad = "spaces"
    /\ preTable[CodeList[1]].click_count = 1
    /\ ~preTable[CodeList[2]].present
    /\ table[CodeList[2]].present

----------------------------------------------------------------------------
(* Claims about the ordered tally of the design notes *)

\* the running scan: entry i of window h is counted, and its label becomes
\* the best so far only when its count is strictly greater than the best
\* count; cnt maps a label to its count so far
RECURSIVE RunningScan(_, _, _, _, _)
RunningScan(h, i, cnt, best, bestCount) ==
    IF i > Len(h)
    THEN best
    ELSE LET l == h[i][1]
             c == cnt[l] + 1
         IN  IF c > bestCount
             THEN RunningScan(h, i + 1, [cnt EXCEPT ![l] = c], l, c)
             ELSE RunningScan(h, i + 1, [cnt EXCEPT ![l] = c], best, bestCount)

RunningBest(h) == RunningScan(h, 1, [l \in LabelsIn(h) |-> 0], "", 0)

\* the scan made after the tally is complete: the labels are visited in the
\* order of their first entries, with the same strict comparison
RECURSIVE CompletedScan(_, _, _)
CompletedScan(h, i, best) ==
    IF i > Len(h)
    THEN best
    ELSE LET l == h[i][1]
         IN  IF best = "" \/ CountOf(l, h) > CountOf(best, h)
             THEN CompletedScan(h, i + 1, l)
             ELSE CompletedScan(h, i + 1, best)

CompletedBest(h) == CompletedScan(h, 1, "")

\* the labels of h whose count no other label exceeds
TopLabels(h) ==
    {l \in LabelsIn(h) : \A k \in LabelsIn(h) : CountOf(k, h) <= CountOf(l, h)}

\* C21: for every window, the ordered tally of the design notes (count the
\* entries oldest to newest, replace the best-so-far label only on a strictly
\* greater count) selects the label _smooth_predictions returns.
C21_RunningTallyAgrees ==
    AcceptedCall => RunningBest(prediction_history) = lastRet[1]

\* C21, amended: the tally selects the label _smooth_predictions returns
\* when the strict comparison is made over the completed counts, visiting
\* the labels in first-seen order, and also when it is made while counting
\* provided a single label has the highest count; on a tie the running
\* comparison selects a label of highest count, which may be another one.
C21_CompletedTallyAgrees ==
    AcceptedCall =>
        LET h == prediction_history
        IN  /\ CompletedBest(h) = lastRet[1]
            /\ Cardinality(TopLabels(h)) = 1 => RunningBest(h) = lastRet[1]
            /\ RunningBest(h) \in TopLabels(h)

\* A, B, B, A: B is the first to reach two entries, A is seen first
C21_Witness ==
    /\ AcceptedCall
    /\ LabelsOf(prediction_history) = <<"A", "B", "B", "A">>
    /\ lastRet[1] = "A"
    /\ CompletedBest(prediction_history) = "A"
    /\ RunningBest(prediction_history) = "B"

----------------------------------------------------------------------------
(* Claims about concurrent invocations of the URL shortener *)

\* C25: under any interleaving of shortenr invocations, a short_code that
\* maps to a long_url is never given a different long_url.
C25_NeverOverwritten ==
    [][\A c \in GenCodes :
          (table[c].present /\ table'[c].present)
              => table'[c].long_url = table[c].long_url]_vars

\* the invocations of shortenr
Shorteners == {p \in Invocations : inv[p].fn = "shortenr"}

\* C26: generate_unique_short_code makes at most max_attempts lookups; the
\* code it returns is one whose lookup, in that attempt, answered and held no
\* item; it raises after exactly max_attempts attempts, the last of which
\* found an item or failed, as did every attempt that left it in the loop.
C26_GenerationBounded ==
    \A p \in Shorteners :
        /\ inv[p].attempts \in 0..max_attempts
        /\ inv[p].pc = "put" =>
               /\ inv[p].lookup = "free"
               /\ inv[p].attempts >= 1
               /\ inv[p].code \in ConcDraws
        /\ (inv[p].pc = "gen" /\ inv[p].attempts > 0) =>
               inv[p].lookup \in {"taken", "failed"}
        /\ (inv[p].pc = "gen" /\ inv[p].attempts = max_attempts) =>
               /\ ENABLED GenExhausted(p)
               /\ \A c \in ConcDraws : \A get_ok \in BOOLEAN :
                      ~ENABLED GenAttempt(p, c, get_ok)
        /\ (inv[p].pc = "done" /\ inv[p].status = 200) => inv[p].lookup = "free"
        /\ (inv[p].pc = "done" /\ inv[p].lookup # "free") =>
               /\ inv[p].status = 500
               /\ inv[p].attempts = max_attempts
               /\ inv[p].lookup \in {"taken", "failed"}

\* one invocation ran out of attempts while the other was handed a code on a
\* later attempt than its first
C26_Witness ==
    /\ inv["i1"].fn = "shortenr"
    /\ inv["i1"].pc = "done"
    /\ inv["i1"].status = 500
    /\ inv["i1"].attempts = max_attempts
    /\ inv["i1"].lookup = "taken"
    /\ inv["i2"].fn = "shortenr"
    /\ inv["i2"].pc = "put"
    /\ inv["i2"].attempts = 3

\* the invocation that takes the step, when it is one of redirector
Redirecting(p) == inv'[p] # inv[p] /\ inv'[p].fn = "redirector"

\* C27: a redirect that answers 301 after its update returned adds exactly 1
\* to the click_count of the item of its short_code and touches nothing
\* else; every other step of a redirect (400, 404, a failed update) changes
\* no item; the stored count is the number of updates that returned, whatever
\* the interleaving.
C27_ClicksCounted ==
    [][/\ \A p \in Invocations :
            Redirecting(p) =>
                IF inv'[p].status = 301 /\ inv'[p].lookup = "updated"
                THEN /\ inv'[p].code \in GenCodes
                     /\ table' = [table EXCEPT ![inv'[p].code].click_count = @ + 1]
                ELSE table' = table
       /\ \A c \in GenCodes :
            table'[c].present => table'[c].click_count = clicks_done'[c]]_vars

\* i2 read the count 0, then i1's update landed, and i2's update is still to
\* come on the same item
C27_Witness ==
    /\ inv["i1"].fn = "redirector"
    /\ inv["i1"].status = 301
    /\ inv["i1"].lookup = "updated"
    /\ inv["i2"].fn = "redirector"
    /\ inv["i2"].pc = "update"
    /\ inv["i2"].code = inv["i1"].code
    /\ inv["i2"].seen = 0
    /\ table[inv["i1"].code].click_count = 1

----------------------------------------------------------------------------
(* Claims about construction and invalid inputs *)

\* C9: an invalid tunable (capacity <= 0, threshold outside [0, 1]) makes the
\* construction fail.
C9_InvalidTunableFailsConstruction ==
    (smoothing_window <= 0 \/ gesture_threshold < 0 \/ gesture_threshold > 100)
        => ~constructed

\* C10: predict given an invalid input (a wrong length, a value that is not
\* finite) never returns what it returns for an absent input.
C10_InvalidDistinctFromAbsent ==
    (lastOp = "predict" /\ lastLandmarks \in {"wrong_length", "not_finite"})
        => lastRet # ReturnAbsent

====
